---- MODULE Spec2Model ----
(***************************************************************************)
(* Model of src/main.py: a three-stage LangGraph pipeline (query rewriter, *)
(* search executor, result formatter) driven once per input line by the    *)
(* command-line loop chatbot().                                            *)
(*                                                                         *)
(* Text is a sequence of words; a word made of whitespace is " ".  A       *)
(* message is a record [role, content, id]; id 0 stands for Python's None. *)
(* The language model and the search provider are the environment: each    *)
(* call returns, the language model returns an assistant message carrying  *)
(* an id of its own that no other message has.                             *)
(***************************************************************************)
EXTENDS Naturals, Sequences, FiniteSets, TLC

VARIABLES
    messages,     \* state["messages"]
    valid_input,  \* state["valid_input"]
    pc,           \* position of the program
    line,         \* user_input, the line read last
    executed,     \* stages executed in the current pipeline run
    calls,        \* external calls made since the last line was read
    allCalls,     \* external calls made since the program started
    printed,      \* what print() wrote since the last line was read
    nextId,       \* ids handed out so far (uuid4 / the model's run ids)
    turns,        \* lines read that were not "q"
    okTurns,      \* of these, the lines with text left after strip()
    pre,          \* state["messages"] when the last line was read
    raised        \* exception propagated by the last call, or "none"

vars == <<messages, valid_input, pc, line, executed, calls, allCalls, printed,
          nextId,
          turns, okTurns, pre, raised>>

-----------------------------------------------------------------------------
(* Bounds *)

MaxTurns == 2
MaxHist == 2
MaxLiveTurns == 1

-----------------------------------------------------------------------------
(* Text *)

Whitespace == {" ", "\t"}

QUIT == <<"q">>
NO_USER_INPUT == <<"No", " ", "user", " ", "input", " ", "received.">>
NO_SEARCH_QUERY == <<"No", " ", "search", " ", "query", " ", "received.">>
NO_SEARCH_RESULTS == <<"No", " ", "search", " ", "results", " ", "received.">>
SEARCH_PREFIX == <<"Search", " ", "results:", " ">>
INVALID_RESPONSE == <<"Invalid", " ", "response", " ", "received.">>

\* Lines the terminal may deliver to input().
Lines == {<<>>, <<" ">>, <<"q">>, <<" ", "q">>, <<"Q">>, <<"a">>, <<" ", "a", " ">>}

\* Texts the language model may answer with.
Replies == {<<>>, <<" ", "a">>}

\* Texts the search provider may return.
SearchResults == {<<>>, <<"a">>}

RECURSIVE lstrip(_)
lstrip(s) ==
    IF s = <<>> THEN <<>>
    ELSE IF Head(s) \in Whitespace THEN lstrip(Tail(s)) ELSE s

RECURSIVE rstrip(_)
rstrip(s) ==
    IF s = <<>> THEN <<>>
    ELSE IF s[Len(s)] \in Whitespace THEN rstrip(SubSeq(s, 1, Len(s) - 1)) ELSE s

\* strip() that leaves the text as it is.
strip_identity(s) == s

strip(s) == rstrip(lstrip(s))

-----------------------------------------------------------------------------
(* Messages *)

Roles == {"user", "assistant", "system"}

HumanMessage(c) == [role |-> "user", content |-> c, id |-> 0]
AIMessage(c) == [role |-> "assistant", content |-> c, id |-> 0]

isHumanMessage(m) == m.role = "user"
isAIMessage(m) == m.role = "assistant"

Last(s) == s[Len(s)]

\* What llm.invoke returns: an assistant message with text c and id n.
LlmResponse(c, n) == [role |-> "assistant", content |-> c, id |-> n]

LlmCall(sys, arg, ret) == [svc |-> "llm", sys |-> sys, arg |-> arg, ret |-> ret.content]
SearchCall(arg, ret) == [svc |-> "search", sys |-> "none", arg |-> arg, ret |-> ret]

-----------------------------------------------------------------------------
(* add_messages, the reducer of State.messages *)

\* "assign missing ids": every message without an id gets a fresh one, in
\* the order of the list.
AssignIds(msgs, n) ==
    LET missing(i) == Cardinality({j \in 1..i : msgs[j].id = 0})
    IN [msgs |-> [i \in 1..Len(msgs) |->
                    IF msgs[i].id = 0
                    THEN [msgs[i] EXCEPT !.id = n + missing(i)]
                    ELSE msgs[i]],
        next |-> n + missing(Len(msgs))]

\* Position in merged of the message with this id, 0 if there is none.
IndexOfId(merged, id) ==
    IF \E i \in 1..Len(merged) : merged[i].id = id
    THEN CHOOSE i \in 1..Len(merged) : merged[i].id = id
    ELSE 0

\* "merge": going through right in order, a message replaces the message of
\* the same id where that one stands, or is appended.  So a message of
\* merged ends as the last message of right with its id, and the ids new to
\* merged follow in the order they first come up in right, each with the
\* last message of right that has it.
Merge(merged, right) ==
    LET same(id) == {j \in 1..Len(right) : right[j].id = id}
        latest(id) == CHOOSE j \in same(id) : \A k \in same(id) : k <= j
        fresh == {j \in 1..Len(right) :
                    /\ IndexOfId(merged, right[j].id) = 0
                    /\ \A k \in 1..(j - 1) : right[k].id # right[j].id}
        nth(k) == CHOOSE j \in fresh : Cardinality({x \in fresh : x < j}) = k - 1
    IN [i \in 1..Len(merged) |->
          IF same(merged[i].id) = {} THEN merged[i] ELSE right[latest(merged[i].id)]]
       \o [k \in 1..Cardinality(fresh) |-> right[latest(right[nth(k)].id)]]

\* The element of a one-element set.
Only(S) == CHOOSE v \in S : TRUE

\* A reducer that concatenates instead of merging by id.
add_messages_concat(left, right, n) ==
    LET l == AssignIds(left, n)
        r == AssignIds(right, l.next)
    IN [msgs |-> l.msgs \o r.msgs, next |-> r.next]

\* l, r: left and right with their ids assigned (bound as values, so that
\* each is computed once).
add_messages(left, right, n) ==
    Only({ Only({ [msgs |-> Merge(l.msgs, r.msgs), next |-> r.next] :
                    r \in {AssignIds(right, l.next)} }) :
             l \in {AssignIds(left, n)} })

-----------------------------------------------------------------------------
(* The three nodes.  Each returns the dictionary the node returns, the      *)
(* exception it raises ("none" when it returns) and the external calls it   *)
(* made.                                                                    *)

Returned(msgs, flag, cs) ==
    [messages |-> msgs, valid_input |-> flag, raised |-> "none", calls |-> cs]

Raised(state, exc) ==
    [messages |-> state.messages, valid_input |-> state.valid_input,
     raised |-> exc, calls |-> <<>>]

RECURSIVE AllText(_)
\* The texts of a sequence of messages, one after the other.
AllText(msgs) ==
    IF msgs = <<>> THEN <<>> ELSE Head(msgs).content \o AllText(Tail(msgs))

\* processing_node that hands the language model the whole history.
processing_node_whole_history(state, response) ==
    LET msgs == state.messages IN
    IF msgs = <<>> \/ ~isHumanMessage(Last(msgs))
    THEN Returned(Append(msgs, AIMessage(NO_USER_INPUT)), FALSE, <<>>)
    ELSE IF strip(Last(msgs).content) = <<>>
    THEN Returned(Append(msgs, AIMessage(NO_USER_INPUT)), FALSE, <<>>)
    ELSE Returned(Append(msgs, response), TRUE,
                  <<LlmCall("rewrite", AllText(msgs), response)>>)

\* processing_node that leaves valid_input as it found it on rejection.
processing_node_flag_left(state, response) ==
    LET msgs == state.messages IN
    IF msgs = <<>> \/ ~isHumanMessage(Last(msgs))
    THEN Returned(Append(msgs, AIMessage(NO_USER_INPUT)), state.valid_input, <<>>)
    ELSE IF strip(Last(msgs).content) = <<>>
    THEN Returned(Append(msgs, AIMessage(NO_USER_INPUT)), state.valid_input, <<>>)
    ELSE Returned(Append(msgs, response), TRUE,
                  <<LlmCall("rewrite", Last(msgs).content, response)>>)

\* processing_node that leaves valid_input as it found it on success.
processing_node_flag_kept(state, response) ==
    LET msgs == state.messages IN
    IF msgs = <<>> \/ ~isHumanMessage(Last(msgs))
    THEN Returned(Append(msgs, AIMessage(NO_USER_INPUT)), FALSE, <<>>)
    ELSE IF strip(Last(msgs).content) = <<>>
    THEN Returned(Append(msgs, AIMessage(NO_USER_INPUT)), FALSE, <<>>)
    ELSE Returned(Append(msgs, response), state.valid_input,
                  <<LlmCall("rewrite", Last(msgs).content, response)>>)

\* processing_node that tests the text without strip().
processing_node_untrimmed(state, response) ==
    LET msgs == state.messages IN
    IF msgs = <<>> \/ ~isHumanMessage(Last(msgs))
    THEN Returned(Append(msgs, AIMessage(NO_USER_INPUT)), FALSE, <<>>)
    ELSE IF Last(msgs).content = <<>>
    THEN Returned(Append(msgs, AIMessage(NO_USER_INPUT)), FALSE, <<>>)
    ELSE Returned(Append(msgs, response), TRUE,
                  <<LlmCall("rewrite", Last(msgs).content, response)>>)

\* response: what llm.invoke returns if the node calls it.
processing_node(state, response) ==
    LET msgs == state.messages IN
    IF msgs = <<>> \/ ~isHumanMessage(Last(msgs))
    THEN Returned(Append(msgs, AIMessage(NO_USER_INPUT)), FALSE, <<>>)
    ELSE IF strip(Last(msgs).content) = <<>>
    THEN Returned(Append(msgs, AIMessage(NO_USER_INPUT)), FALSE, <<>>)
    ELSE Returned(Append(msgs, response), TRUE,
                  <<LlmCall("rewrite", Last(msgs).content, response)>>)

\* process_search that trims the query before it searches.
process_search_trimmed(state, results) ==
    LET msgs == state.messages IN
    IF msgs = <<>> THEN Raised(state, "IndexError")
    ELSE IF ~isAIMessage(Last(msgs))
    THEN Returned(Append(msgs, AIMessage(NO_SEARCH_QUERY)), FALSE, <<>>)
    ELSE Returned(Append(msgs, AIMessage(SEARCH_PREFIX \o results)), TRUE,
                  <<SearchCall(strip(Last(msgs).content), results)>>)

\* process_search that appends the results as a user message.
process_search_as_human(state, results) ==
    LET msgs == state.messages IN
    IF msgs = <<>> THEN Raised(state, "IndexError")
    ELSE IF ~isAIMessage(Last(msgs))
    THEN Returned(Append(msgs, AIMessage(NO_SEARCH_QUERY)), FALSE, <<>>)
    ELSE Returned(Append(msgs, HumanMessage(SEARCH_PREFIX \o results)), TRUE,
                  <<SearchCall(Last(msgs).content, results)>>)

\* process_search that appends the results without the "Search results: " wrapper.
process_search_unwrapped(state, results) ==
    LET msgs == state.messages IN
    IF msgs = <<>> THEN Raised(state, "IndexError")
    ELSE IF ~isAIMessage(Last(msgs))
    THEN Returned(Append(msgs, AIMessage(NO_SEARCH_QUERY)), FALSE, <<>>)
    ELSE Returned(Append(msgs, AIMessage(results)), TRUE,
                  <<SearchCall(Last(msgs).content, results)>>)

\* results: what tool_search.run returns if the node calls it.
process_search(state, results) ==
    LET msgs == state.messages IN
    IF msgs = <<>> THEN Raised(state, "IndexError")
    ELSE IF ~isAIMessage(Last(msgs))
    THEN Returned(Append(msgs, AIMessage(NO_SEARCH_QUERY)), FALSE, <<>>)
    ELSE Returned(Append(msgs, AIMessage(SEARCH_PREFIX \o results)), TRUE,
                  <<SearchCall(Last(msgs).content, results)>>)

\* format_output that calls the language model a second time.
format_output_retry(state, response) ==
    LET msgs == state.messages IN
    IF msgs = <<>> THEN Raised(state, "IndexError")
    ELSE IF ~isAIMessage(Last(msgs))
    THEN Returned(Append(msgs, AIMessage(NO_SEARCH_RESULTS)), FALSE, <<>>)
    ELSE Returned(Append(msgs, response), TRUE,
                  <<LlmCall("format", Last(msgs).content, response),
                    LlmCall("format", Last(msgs).content, response)>>)

\* response: what llm.invoke returns if the node calls it.
format_output(state, response) ==
    LET msgs == state.messages IN
    IF msgs = <<>> THEN Raised(state, "IndexError")
    ELSE IF ~isAIMessage(Last(msgs))
    THEN Returned(Append(msgs, AIMessage(NO_SEARCH_RESULTS)), FALSE, <<>>)
    ELSE Returned(Append(msgs, response), TRUE,
                  <<LlmCall("format", Last(msgs).content, response)>>)

-----------------------------------------------------------------------------
(* The graph *)

Stages == <<"process_input", "process_search", "format_output">>

\* add_edge(START, "process_input")
EntryPoint == "process_input"

\* An edge out of process_input that ignores the flag.
route_process_input_unconditional(state) == "process_search"

\* conditional edges out of process_input
route_process_input(state) == IF state.valid_input THEN "process_search" ELSE "end"

\* An edge out of process_search that leads back to process_input.
route_process_search_back(state) == IF state.valid_input THEN "process_input" ELSE "end"

\* conditional edges out of process_search
route_process_search(state) == IF state.valid_input THEN "format_output" ELSE "end"

\* An edge out of format_output that starts the pipeline again.
route_format_output_restart(state) == "process_input"

\* add_edge("format_output", END)
route_format_output(state) == "end"

State == [messages |-> messages, valid_input |-> valid_input]

\* One superstep, first half: the node's result goes through the channels'
\* reducers.  n: ids handed out once the node has returned.
ApplyNode(name, result, n) ==
    /\ executed' = Append(executed, name)
    /\ calls' = calls \o result.calls
    /\ allCalls' = allCalls \o result.calls
    /\ raised' = result.raised
    /\ IF result.raised # "none"
       THEN UNCHANGED <<messages, valid_input, nextId>>
       ELSE \E upd \in {add_messages(messages, result.messages, n)} :
            /\ messages' = upd.msgs
            /\ nextId' = upd.next
            /\ valid_input' = result.valid_input
    /\ UNCHANGED <<line, printed, turns, okTurns, pre>>

\* The state the node's outgoing edge reads: the state after the update.
Updated(result, n) ==
    [messages |-> add_messages(messages, result.messages, n).msgs,
     valid_input |-> result.valid_input]

\* One superstep, second half: the node's outgoing edge picks the next
\* node; an exception ends the program.
StepProcessInput ==
    /\ pc = "process_input"
    /\ \E c \in Replies :
         \E result \in {processing_node(State, LlmResponse(c, nextId + 1))} :
         /\ ApplyNode("process_input", result, nextId + 1)
         /\ pc' = IF result.raised # "none" THEN "crashed"
                  ELSE route_process_input(Updated(result, nextId + 1))

StepProcessSearch ==
    /\ pc = "process_search"
    /\ \E r \in SearchResults :
         \E result \in {process_search(State, r)} :
         /\ ApplyNode("process_search", result, nextId)
         /\ pc' = IF result.raised # "none" THEN "crashed"
                  ELSE route_process_search(Updated(result, nextId))

StepFormatOutput ==
    /\ pc = "format_output"
    /\ \E c \in Replies :
         \E result \in {format_output(State, LlmResponse(c, nextId + 1))} :
         /\ ApplyNode("format_output", result, nextId + 1)
         /\ pc' = IF result.raised # "none" THEN "crashed"
                  ELSE route_format_output(Updated(result, nextId + 1))

-----------------------------------------------------------------------------
(* chatbot(), the command-line loop *)

\* A loop condition that trims the line before comparing it.
IsQuit_trimmed(l) == strip(l) = QUIT

\* The loop condition: user_input != "q" is false.
IsQuit(l) == l = QUIT

\* A graph input that keeps only the newest message.
GraphInput_newest_only(state, n) == add_messages(<<>>, <<Last(state.messages)>>, n)

\* What graph.invoke does before the first node runs: the input dictionary
\* is written to fresh channels, the messages through add_messages.
GraphInput(state, n) == add_messages(<<>>, state.messages, n)

\* A loop body that prints the first message instead of the last.
Output_first(state) ==
    LET response == Head(state.messages) IN
    IF isAIMessage(response) THEN response.content ELSE INVALID_RESPONSE

\* The loop body after graph.invoke: what print() is given.
Output(state) ==
    LET response == Last(state.messages) IN
    IF isAIMessage(response) THEN response.content ELSE INVALID_RESPONSE

Init ==
    /\ messages = <<>>
    /\ valid_input = FALSE
    /\ pc = "input"
    /\ line = <<>>
    /\ executed = <<>>
    /\ calls = <<>>
    /\ allCalls = <<>>
    /\ printed = <<>>
    /\ nextId = 0
    /\ turns = 0
    /\ okTurns = 0
    /\ pre = <<>>
    /\ raised = "none"

\* input() returns "q": the loop ends.
ReadQuit ==
    /\ pc = "input"
    /\ \E l \in Lines :
         /\ IsQuit(l)
         /\ line' = l
    /\ pc' = "quit"
    /\ executed' = <<>>
    /\ calls' = <<>>
    /\ printed' = <<>>
    /\ pre' = messages
    /\ UNCHANGED <<messages, valid_input, allCalls, nextId, turns, okTurns, raised>>

\* The loop body up to the start of the run: the line is appended as a
\* HumanMessage and graph.invoke writes the state to the graph.
AppendAndInvoke ==
    /\ \E l \in Lines :
         /\ ~IsQuit(l)
         /\ line' = l
         /\ okTurns' = IF strip(l) # <<>> THEN okTurns + 1 ELSE okTurns
         /\ \E appended \in {Append(messages, HumanMessage(l))} :
            \E written \in {GraphInput([messages |-> appended, valid_input |-> valid_input],
                                       nextId)} :
              /\ messages' = written.msgs
              /\ nextId' = written.next
    /\ pc' = EntryPoint
    /\ turns' = turns + 1
    /\ executed' = <<>>
    /\ calls' = <<>>
    /\ printed' = <<>>
    /\ pre' = messages
    /\ UNCHANGED <<valid_input, allCalls, raised>>

\* input() returns another line: a turn starts.
ReadLine ==
    /\ pc = "input"
    /\ turns < MaxTurns
    /\ AppendAndInvoke

\* graph.invoke has returned: the last message is printed and the loop
\* goes back to input().
PrintResponse ==
    /\ pc = "end"
    /\ printed' = Append(printed, Output(State))
    /\ pc' = "input"
    /\ UNCHANGED <<messages, valid_input, line, executed, calls, allCalls, nextId, turns,
                   okTurns, pre, raised>>

Next ==
    \/ ReadQuit
    \/ ReadLine
    \/ StepProcessInput
    \/ StepProcessSearch
    \/ StepFormatOutput
    \/ PrintResponse

Spec == Init /\ [][Next]_vars

\* The same, reading at most MaxLiveTurns lines.
ReadLineLive ==
    /\ pc = "input"
    /\ turns < MaxLiveTurns
    /\ AppendAndInvoke

NextLive ==
    \/ ReadQuit
    \/ ReadLineLive
    \/ StepProcessInput
    \/ StepProcessSearch
    \/ StepFormatOutput
    \/ PrintResponse

\* The loop with its scheduling: the program is one synchronous thread, so
\* a stage that is due runs as soon as its collaborator returns, and the
\* response is printed as soon as graph.invoke returns.  Reading the next
\* line waits for the terminal and is left unforced.
SpecLive ==
    /\ Init /\ [][NextLive]_vars
    /\ WF_vars(StepProcessInput)
    /\ WF_vars(StepProcessSearch)
    /\ WF_vars(StepFormatOutput)
    /\ WF_vars(PrintResponse)

-----------------------------------------------------------------------------
(* The nodes called directly, on any state                                  *)

SeqsUpTo(S, n) == UNION {[1..k -> S] : k \in 0..n}

\* Texts of the messages of an arbitrary state.
StageTexts == {<<>>, <<" ">>, <<"a">>, <<" ", "a">>}

StageMessages == [role : Roles, content : StageTexts, id : {0}]

InitStage ==
    /\ messages \in SeqsUpTo(StageMessages, MaxHist)
    /\ valid_input \in BOOLEAN
    /\ pc = "call"
    /\ line = <<>>
    /\ executed = <<>>
    /\ calls = <<>>
    /\ allCalls = <<>>
    /\ printed = <<>>
    /\ nextId = 0
    /\ turns = 0
    /\ okTurns = 0
    /\ pre = <<>>
    /\ raised = "none"

\* A direct call node(state): the state becomes the dictionary returned.
CallNode(name, result) ==
    /\ pc' = "returned"
    /\ executed' = <<name>>
    /\ pre' = messages
    /\ messages' = result.messages
    /\ valid_input' = result.valid_input
    /\ raised' = result.raised
    /\ calls' = result.calls
    /\ allCalls' = result.calls
    /\ UNCHANGED <<line, printed, nextId, turns, okTurns>>

CallProcessingNode ==
    /\ pc = "call"
    /\ \E c \in Replies : CallNode("process_input", processing_node(State, LlmResponse(c, 0)))

CallProcessSearch ==
    /\ pc = "call"
    /\ \E r \in SearchResults : CallNode("process_search", process_search(State, r))

CallFormatOutput ==
    /\ pc = "call"
    /\ \E c \in Replies : CallNode("format_output", format_output(State, LlmResponse(c, 0)))

NextStage ==
    \/ CallProcessingNode
    \/ CallProcessSearch
    \/ CallFormatOutput

SpecStage == InitStage /\ [][NextStage]_vars

-----------------------------------------------------------------------------
(* Properties *)

\* Text with something left after trimming whitespace.
NonBlank(s) == \E i \in 1..Len(s) : s[i] \notin Whitespace

IsPrefix(s, t) == Len(s) <= Len(t) /\ SubSeq(t, 1, Len(s)) = s

\* graph.invoke has returned for the line read last.
TurnDone == pc = "end" \/ (pc = "input" /\ turns > 0)

\* C1: the router starts process_search only straight after process_input
\* left valid_input true, starts format_output only straight after
\* process_search left valid_input true, and goes to end whenever either
\* of the two stages left valid_input false.
C1_RouterGuard ==
    [][ /\ (pc' = "process_search" => pc = "process_input" /\ valid_input')
        /\ (pc' = "format_output" => pc = "process_search" /\ valid_input')
        /\ (pc \in {"process_input", "process_search"} /\ ~valid_input' => pc' = "end")
      ]_vars

\* A second turn stopped by the router after process_input, following a turn
\* that went through all three stages.
C1_Witness ==
    /\ pc = "end"
    /\ executed = <<"process_input">>
    /\ ~valid_input
    /\ turns = 2
    /\ okTurns = 1

\* C2: processing_node, called on a state whose last message is a user
\* message with text left after trimming, returns valid_input = true and the
\* messages it was given plus exactly one assistant message, the language
\* model's response.
C2_RewriterAccepts ==
    [][ ( /\ pc = "call"
          /\ executed' = <<"process_input">>
          /\ messages # <<>>
          /\ isHumanMessage(Last(messages))
          /\ NonBlank(Last(messages).content) )
        => ( /\ raised' = "none"
             /\ valid_input'
             /\ Len(messages') = Len(messages) + 1
             /\ IsPrefix(messages, messages')
             /\ isAIMessage(Last(messages'))
             /\ Len(calls') = 1
             /\ calls'[1].svc = "llm"
             /\ Last(messages').content = calls'[1].ret )
      ]_vars

\* processing_node has returned from a state whose last message was the
\* user text " a".
C2_Witness ==
    /\ pc = "returned"
    /\ executed = <<"process_input">>
    /\ pre # <<>>
    /\ Last(pre) = HumanMessage(<<" ", "a">>)
    /\ valid_input
    /\ Len(messages) = Len(pre) + 1

\* C3: processing_node, called on a state with no message, with a last
\* message that is not a user message, or with a last user message that is
\* empty or whitespace only, returns the messages it was given plus exactly
\* one assistant message "No user input received." and valid_input = false,
\* raises nothing and calls no language model.
C3_RewriterRejects ==
    [][ ( /\ pc = "call"
          /\ executed' = <<"process_input">>
          /\ \/ messages = <<>>
             \/ ~isHumanMessage(Last(messages))
             \/ ~NonBlank(Last(messages).content) )
        => ( /\ raised' = "none"
             /\ ~valid_input'
             /\ messages' = Append(messages, AIMessage(NO_USER_INPUT))
             /\ calls' = <<>> )
      ]_vars

\* processing_node has returned from a state whose last message was a
\* whitespace-only user message.
C3_Witness ==
    /\ pc = "returned"
    /\ executed = <<"process_input">>
    /\ pre # <<>>
    /\ Last(pre) = HumanMessage(<<" ">>)
    /\ messages = Append(pre, AIMessage(NO_USER_INPUT))
    /\ ~valid_input

\* C4: in a turn whose line is empty or whitespace only, whatever the
\* history, process_search and format_output are never started, and when
\* the run is over it has executed process_input alone, the messages are
\* the earlier history, the user message and the one diagnostic
\* "No user input received.", no external call was made and valid_input is
\* false.
C4_BlankTurn ==
    (turns > 0 /\ pc # "quit" /\ ~NonBlank(line))
    => /\ pc \notin {"process_search", "format_output", "crashed"}
       /\ TurnDone =>
            /\ executed = <<"process_input">>
            /\ Len(messages) = Len(pre) + 2
            /\ IsPrefix(pre, messages)
            /\ isHumanMessage(messages[Len(pre) + 1])
            /\ messages[Len(pre) + 1].content = line
            /\ isAIMessage(Last(messages))
            /\ Last(messages).content = NO_USER_INPUT
            /\ calls = <<>>
            /\ ~valid_input

\* A whitespace-only line read after a turn that went through all three
\* stages, its run over.
C4_Witness ==
    /\ pc = "input"
    /\ turns = 2
    /\ okTurns = 1
    /\ line = <<" ">>
    /\ Len(pre) = 4
    /\ Len(messages) = 6

\* Number of user messages in a sequence of messages.
RECURSIVE UserCount(_)
UserCount(msgs) ==
    IF msgs = <<>> THEN 0
    ELSE (IF isHumanMessage(Head(msgs)) THEN 1 ELSE 0) + UserCount(Tail(msgs))

\* C5: the history is never reset: whenever the loop is between turns (or
\* has ended), messages holds one user message per line read plus three
\* messages for every turn with a non-blank line and one for every turn with
\* a blank line; after two turns with non-blank lines it holds 8 messages.
C5_HistoryAccumulates ==
    (pc \in {"input", "end", "quit"})
    => /\ Len(messages) = turns + 3 * okTurns + (turns - okTurns)
       /\ UserCount(messages) = turns
       /\ (turns = 2 /\ okTurns = 2 => Len(messages) = 8)

\* Two turns with non-blank lines have been completed.
C5_Witness ==
    /\ pc = "input"
    /\ turns = 2
    /\ okTurns = 2
    /\ Len(messages) = 8

\* C6: in one run the stages executed are always a prefix of
\* (process_input, process_search, format_output): the stage about to run
\* is the next one of that order, none runs twice, and a run that has
\* reached end has executed at least process_input.
C6_LinearRun ==
    /\ Len(executed) <= Len(Stages)
    /\ \A i \in 1..Len(executed) : executed[i] = Stages[i]
    /\ \A k \in 1..Len(Stages) : pc = Stages[k] => Len(executed) = k - 1
    /\ EntryPoint = Stages[1]
    /\ pc = "end" => Len(executed) >= 1

\* A run that executed all three stages has reached end.
C6_Witness ==
    /\ pc = "end"
    /\ executed = Stages

\* C7: process_search and format_output, called on a state with no message
\* or with a last message that is not an assistant message, return the
\* messages they were given plus their fixed diagnostic and
\* valid_input = false, call no collaborator and raise nothing.
C7_UniformFailure ==
    [][ ( /\ pc = "call"
          /\ executed' \in {<<"process_search">>, <<"format_output">>}
          /\ (messages = <<>> \/ ~isAIMessage(Last(messages))) )
        => ( /\ raised' = "none"
             /\ ~valid_input'
             /\ messages' = Append(messages,
                    AIMessage(IF executed' = <<"process_search">>
                              THEN NO_SEARCH_QUERY ELSE NO_SEARCH_RESULTS))
             /\ calls' = <<>> )
      ]_vars

\* C8: in a run of the loop, process_input starts on the user message just
\* read, process_search starts on the language model's rewrite, appended by
\* process_input in this run, format_output starts on "Search results: "
\* followed by what the provider returned in this run, and a run of all
\* three stages ends on the language model's formatted report.
C8_LastIsPreviousArtifact ==
    /\ pc = "process_input" =>
         /\ isHumanMessage(Last(messages))
         /\ Last(messages).content = line
    /\ pc = "process_search" =>
         /\ Len(messages) = Len(pre) + 2
         /\ Len(calls) = 1
         /\ calls[1].svc = "llm" /\ calls[1].sys = "rewrite"
         /\ isAIMessage(Last(messages))
         /\ Last(messages).content = calls[1].ret
    /\ pc = "format_output" =>
         /\ Len(messages) = Len(pre) + 3
         /\ Len(calls) = 2
         /\ calls[2].svc = "search"
         /\ isAIMessage(Last(messages))
         /\ Last(messages).content = SEARCH_PREFIX \o calls[2].ret
    /\ (pc = "end" /\ executed = Stages) =>
         /\ Len(messages) = Len(pre) + 4
         /\ Len(calls) = 3
         /\ calls[3].svc = "llm" /\ calls[3].sys = "format"
         /\ isAIMessage(Last(messages))
         /\ Last(messages).content = calls[3].ret

\* format_output is about to start in a second turn, on a search-results
\* message whose text differs from the rewrite before it.
C8_Witness ==
    /\ pc = "format_output"
    /\ turns = 2
    /\ Len(messages) = 7
    /\ messages[6].content = <<>>
    /\ messages[7].content = SEARCH_PREFIX \o <<"a">>

\* C9: every step of the loop and of a run leaves the messages it found in
\* place, unchanged and in order, and only adds messages after them.
C9_AppendOnly ==
    [][ IsPrefix(messages, messages') ]_vars

\* A stage of a second turn has appended to a history of four messages.
C9_Witness ==
    /\ turns = 2
    /\ pc = "process_search"
    /\ Len(pre) = 4
    /\ Len(messages) = 6
    /\ IsPrefix(pre, messages)

\* C10: when the loop has handled a line other than "q", it has appended
\* that line as one user message, run the pipeline once from its entry
\* point, and printed exactly one output: the text of the last message if
\* that is an assistant message, "Invalid response received." otherwise;
\* nothing is printed while the run lasts.
C10_OneOutputPerLine ==
    /\ (pc = "input" /\ turns > 0) =>
         /\ line # QUIT
         /\ Len(messages) > Len(pre) + 1
         /\ IsPrefix(pre, messages)
         /\ messages[Len(pre) + 1].role = "user"
         /\ messages[Len(pre) + 1].content = line
         /\ UserCount(messages) = UserCount(pre) + 1
         /\ Len(executed) >= 1
         /\ Cardinality({i \in 1..Len(executed) : executed[i] = EntryPoint}) = 1
         /\ Len(printed) = 1
         /\ printed[1] = IF Last(messages).role = "assistant"
                         THEN Last(messages).content
                         ELSE INVALID_RESPONSE
    /\ pc \in {"process_input", "process_search", "format_output", "end"} =>
         printed = <<>>

\* The loop has printed the rejection of a blank line, after a first turn
\* that printed a report.
C10_Witness ==
    /\ pc = "input"
    /\ turns = 2
    /\ okTurns = 1
    /\ Len(pre) = 4
    /\ printed = <<NO_USER_INPUT>>

\* C11: the loop ends exactly when the line read is "q", compared as it
\* is: that step appends no message, runs no stage, calls no collaborator
\* and prints nothing, and nothing happens after it; every other line,
\* among them "", " q" and "Q", starts a turn instead.
C11_QuitExactly ==
    [][ /\ pc # "quit"
        /\ pc = "input" =>
             /\ (pc' = "quit") <=> (line' = <<"q">>)
             /\ pc' = "quit" =>
                  /\ messages' = messages
                  /\ valid_input' = valid_input
                  /\ executed' = <<>>
                  /\ calls' = <<>>
                  /\ allCalls' = allCalls
                  /\ printed' = <<>>
             /\ line' # <<"q">> =>
                  /\ pc' = EntryPoint
                  /\ Len(messages') = Len(messages) + 1
                  /\ Last(messages').content = line'
      ]_vars

\* The loop has ended on "q" after turns whose lines were " q" and "Q".
C11_Witness ==
    /\ pc = "quit"
    /\ line = <<"q">>
    /\ turns = 2
    /\ Len(messages) = 8
    /\ messages[1].content = <<" ", "q">>
    /\ messages[5].content = <<"Q">>
    /\ printed = <<>>

\* Positions of the user messages: where the turns begin in the history.
Starts == {i \in 1..Len(messages) : isHumanMessage(messages[i])}

\* The messages of the turn that begins at position i.
Segment(i) ==
    LET later == {j \in Starts : j > i}
        stop == IF later = {} THEN Len(messages)
                ELSE (CHOOSE j \in later : \A k \in later : j <= k) - 1
    IN SubSeq(messages, i, stop)

\* Roles and texts of a sequence of messages, ids left out.
Shape(msgs) == [j \in 1..Len(msgs) |-> [role |-> msgs[j].role, content |-> msgs[j].content]]

\* The collaborators have behaved as deterministic stubs: the same call
\* with the same argument got the same answer every time.
Deterministic ==
    \A i, j \in 1..Len(allCalls) :
        ( /\ allCalls[i].svc = allCalls[j].svc
          /\ allCalls[i].sys = allCalls[j].sys
          /\ allCalls[i].arg = allCalls[j].arg )
        => allCalls[i].ret = allCalls[j].ret

\* C12: with collaborators that answered deterministically, any two turns
\* with the same non-blank line have appended the same four messages, in
\* the same order with the same roles and texts (user input, rewrite,
\* search-results wrapper, report), whatever history came before each.
C12_SameQuerySameMessages ==
    (pc \in {"input", "quit"} /\ Deterministic)
    => \A i, j \in Starts :
         (messages[i].content = messages[j].content /\ NonBlank(messages[i].content))
         => /\ Len(Segment(i)) = 4
            /\ Shape(Segment(i)) = Shape(Segment(j))
            /\ \A k \in 2..4 : isAIMessage(Segment(i)[k])
            /\ IsPrefix(SEARCH_PREFIX, Segment(i)[3].content)

\* The line "a" has been handled twice, the stubs answering " a" to the
\* rewrite and "a" to the search both times.
C12_Witness ==
    /\ pc = "input"
    /\ turns = 2
    /\ Deterministic
    /\ Len(messages) = 8
    /\ messages[1].content = <<"a">>
    /\ messages[5].content = <<"a">>
    /\ messages[6].content = <<" ", "a">>
    /\ messages[7].content = SEARCH_PREFIX \o <<"a">>

\* C13: with collaborators that return, every run that has started reaches
\* end, having executed at most three stages, and the loop then goes back
\* to reading the next line.
C13_RunTerminates ==
    /\ [](Len(executed) <= 3)
    /\ (pc = EntryPoint) ~> (pc = "end")
    /\ (pc = "end") ~> (pc = "input")

\* A run of three stages is over and the loop is reading again.
C13_Witness ==
    /\ pc = "input"
    /\ turns = 1
    /\ executed = Stages
    /\ Len(printed) = 1

\* C14: in a run of the loop the search provider is called with exactly the
\* text of the message process_input appended, process_search appends an
\* assistant message whose text is exactly "Search results: " followed by
\* what the provider returned, and the formatter's language-model call gets
\* exactly the text of that message.
C14_VerbatimHandover ==
    /\ Len(calls) >= 1 =>
         /\ calls[1].arg = line
         /\ messages[Len(pre) + 2].content = calls[1].ret
    /\ Len(calls) >= 2 =>
         /\ calls[2].svc = "search"
         /\ calls[2].arg = messages[Len(pre) + 2].content
         /\ isAIMessage(messages[Len(pre) + 3])
         /\ messages[Len(pre) + 3].content = SEARCH_PREFIX \o calls[2].ret
    /\ Len(calls) >= 3 =>
         /\ calls[3].svc = "llm"
         /\ calls[3].arg = messages[Len(pre) + 3].content
         /\ calls[3].arg = SEARCH_PREFIX \o calls[2].ret

\* A full run in which the rewrite was " a", with its leading blank, and
\* the provider returned "a".
C14_Witness ==
    /\ pc = "end"
    /\ Len(calls) = 3
    /\ line = <<" ", "a", " ">>
    /\ calls[1].arg = <<" ", "a", " ">>
    /\ calls[2].arg = <<" ", "a">>
    /\ calls[3].arg = SEARCH_PREFIX \o <<"a">>

\* C15: in the loop, with a language model that returns assistant messages,
\* process_search and format_output never take their failure branch: each
\* of them that has executed has made its external call and appended no
\* diagnostic, "Invalid response received." is never printed, and the last
\* message when a run is over is an assistant message.
C15_FailureBranchesUnreachable ==
    /\ pc # "crashed"
    /\ Len(executed) >= 2 => (Len(calls) >= 2 /\ calls[2].svc = "search")
    /\ Len(executed) = 3 => (Len(calls) = 3 /\ calls[3].sys = "format")
    /\ \A i \in 1..Len(messages) :
         messages[i].content \notin {NO_SEARCH_QUERY, NO_SEARCH_RESULTS}
    /\ \A i \in 1..Len(printed) : printed[i] # INVALID_RESPONSE
    /\ TurnDone => isAIMessage(Last(messages))

\* Two runs are over and printed, the second of all three stages.
C15_Witness ==
    /\ pc = "input"
    /\ turns = 2
    /\ executed = Stages
    /\ Len(printed) = 1
    /\ isAIMessage(Last(messages))

\* C16: the stages a run executes are fixed by the line of its turn alone,
\* whatever valid_input was left by the turn before (or by the initial
\* state): all three for a line with text left after trimming,
\* process_input alone otherwise; and when the run is over valid_input is
\* true exactly when all three stages executed.
C16_FlagDoesNotCarryOver ==
    /\ pc \in {"process_search", "format_output"} => valid_input
    /\ TurnDone =>
         /\ executed = IF NonBlank(line) THEN Stages ELSE <<"process_input">>
         /\ valid_input <=> (executed = Stages)

\* A run stopped after process_input although the turn before left
\* valid_input true.
C16_Witness ==
    /\ pc = "end"
    /\ turns = 2
    /\ okTurns = 1
    /\ Len(pre) = 4
    /\ executed = <<"process_input">>
    /\ ~valid_input

\* The services called in a turn, in order.
Services(cs) == [i \in 1..Len(cs) |-> cs[i].svc]

\* C17: the external calls of a turn are fixed by its line: during the run
\* they are a beginning of (language model, search provider, language
\* model), one per stage executed, and when the run is over they are
\* exactly these three for a line with text left after trimming and none
\* at all for an empty or whitespace-only line.
C17_CallsPerTurn ==
    /\ pc \in {"process_input", "process_search", "format_output", "end"} =>
         /\ Len(calls) <= 3
         /\ Services(calls) = SubSeq(<<"llm", "search", "llm">>, 1, Len(calls))
         /\ NonBlank(line) => Len(calls) = Len(executed)
    /\ TurnDone =>
         Services(calls) = IF NonBlank(line) THEN <<"llm", "search", "llm">> ELSE <<>>
    /\ (TurnDone /\ NonBlank(line)) =>
         /\ calls[1].sys = "rewrite"
         /\ calls[3].sys = "format"

\* A turn with the line "Q" has made its three calls after a turn with a
\* blank line that made none.
C17_Witness ==
    /\ pc = "input"
    /\ turns = 2
    /\ okTurns = 1
    /\ line = <<"Q">>
    /\ Len(calls) = 3
    /\ Len(allCalls) = 3

====
